---------------------------- MODULE Spec2Model ----------------------------
(***************************************************************************)
(* A model of pydroid_ipcam.PyDroidIPCam (src/pydroid_ipcam/__init__.py),  *)
(* the client of the Android IP Webcam HTTP interface.                     *)
(*                                                                         *)
(* Representation of the Python values:                                    *)
(*   - a str whose characters matter is a sequence of one-character        *)
(*     strings (<<"o","n">> is "on"); Str gives the text of one, which is  *)
(*     what ends up in a request path;                                     *)
(*   - dict keys, sensor names and request paths are TLA+ strings;         *)
(*   - a dict is the set of its items <<key, value>>, keys unique;         *)
(*   - a list is a sequence;                                               *)
(*   - where the code looks at the type of a value (isinstance, ==         *)
(*     between a float and a str), the value carries its type: PyStr,      *)
(*     PyBool, PyInt, PyFloat, PyList, None;                               *)
(*   - the end of a call is Return(value) or Raise(exception name).        *)
(*                                                                         *)
(* Scope: one call at a time on one client, each call one step (the spec's *)
(* "single logical operation at a time").  The device sends str values in  *)
(* curvals and avail, dicts as JSON bodies and [timestamp, [values]] data  *)
(* points; a body that parses to something else is not modelled.  The URL  *)
(* builders read only the connection parameters and are left out.  The     *)
(* older single-file module src/pydroid_ipcam.py is not modelled.          *)
(***************************************************************************)
EXTENDS Integers, Sequences, FiniteSets, TLC

(***************************************************************************)
(* Bounds of the model.                                                    *)
(***************************************************************************)
\* Longest setting value, in characters, among the exhaustively enumerated ones.
MaxStrLen == 3
\* Longest list of allowed values of a setting in avail.
MaxAvailLen == 2
\* Longest time series of a sensor.
MaxPoints == 2
\* Most values in one data point.
MaxVals == 2

(***************************************************************************)
(* Python values and outcomes.                                             *)
(***************************************************************************)
None == [t |-> "None"]
PyStr(s) == [t |-> "str", s |-> s]
PyBool(b) == [t |-> "bool", b |-> b]
PyInt(n) == [t |-> "int", n |-> n]
PyList(l) == [t |-> "list", items |-> l]
PyDict(d) == [t |-> "dict", d |-> d]
\* A float: (-1)^neg * m * 10^e with m not a multiple of 10, or inf, or nan.
PyFloat(cls, neg, m, e) == [t |-> "float", cls |-> cls, neg |-> neg, m |-> m, e |-> e]

Return(v) == [kind |-> "return", value |-> v]
Raise(e) == [kind |-> "raise", exc |-> e]

\* x == y in Python for the values above: values of different types differ.
PyEq(x, y) == x.t = y.t /\ x = y
\* x in (y1, y2, ...)
PyIn(x, ys) == \E i \in 1..Len(ys) : PyEq(x, ys[i])

\* dict.get(key, default), key in dict, list(dict)
Has(d, k) == \E p \in d : p[1] = k
Get(d, k, default) == IF Has(d, k) THEN (CHOOSE p \in d : p[1] = k)[2] ELSE default
Keys(d) == {p[1] : p \in d}

\* The text of a sequence of characters.
RECURSIVE Str(_)
Str(cs) == IF cs = <<>> THEN "" ELSE Head(cs) \o Str(Tail(cs))

on == <<"o", "n">>
off == <<"o", "f", "f">>

(***************************************************************************)
(* float(str), as CPython parses it:                                       *)
(*   floatvalue  ::= [sign] (floatnumber | "inf" | "infinity" | "nan")     *)
(*   floatnumber ::= number [("e" | "E") [sign] digitpart]                 *)
(*   number      ::= [digitpart] "." digitpart | digitpart ["."]           *)
(*   digitpart   ::= digit (["_"] digit)*                                  *)
(* with surrounding whitespace ignored and inf/nan in any letter case.     *)
(***************************************************************************)
DigitChars == <<"0", "1", "2", "3", "4", "5", "6", "7", "8", "9">>
IsDigit(c) == \E i \in 1..10 : DigitChars[i] = c
DigitVal(c) == (CHOOSE i \in 1..10 : DigitChars[i] = c) - 1
IsSpace(c) == c \in {" ", "\t", "\n"}

RECURSIVE LStrip(_)
LStrip(s) == IF s # <<>> /\ IsSpace(Head(s)) THEN LStrip(Tail(s)) ELSE s
RECURSIVE RStrip(_)
RStrip(s) == IF s # <<>> /\ IsSpace(s[Len(s)]) THEN RStrip(SubSeq(s, 1, Len(s) - 1)) ELSE s
Strip(s) == RStrip(LStrip(s))

\* The first position of s holding a character of cs, 0 when there is none.
IndexOf(s, cs) ==
    IF \E i \in 1..Len(s) : s[i] \in cs
    THEN CHOOSE i \in 1..Len(s) : s[i] \in cs /\ \A j \in 1..(i - 1) : s[j] \notin cs
    ELSE 0

LowerChar(c) ==
    CASE c = "I" -> "i" [] c = "N" -> "n" [] c = "F" -> "f" [] c = "A" -> "a"
      [] c = "T" -> "t" [] c = "Y" -> "y" [] OTHER -> c
Lower(s) == [i \in 1..Len(s) |-> LowerChar(s[i])]

IsSign(c) == c \in {"+", "-"}
Unsigned(s) == IF s # <<>> /\ IsSign(Head(s)) THEN Tail(s) ELSE s

IsDigitPart(s) ==
    /\ s # <<>>
    /\ \A i \in 1..Len(s) :
          \/ IsDigit(s[i])
          \/ s[i] = "_" /\ 1 < i /\ i < Len(s) /\ IsDigit(s[i - 1]) /\ IsDigit(s[i + 1])

IsNumber(s) ==
    LET p == IndexOf(s, {"."})
        ip == SubSeq(s, 1, p - 1)
        fp == SubSeq(s, p + 1, Len(s))
    IN  IF p = 0 THEN IsDigitPart(s)
        ELSE /\ ip = <<>> \/ IsDigitPart(ip)
             /\ fp = <<>> \/ IsDigitPart(fp)
             /\ ip # <<>> \/ fp # <<>>

IsFloatNumber(s) ==
    LET q == IndexOf(s, {"e", "E"})
    IN  IF q = 0 THEN IsNumber(s)
        ELSE /\ IsNumber(SubSeq(s, 1, q - 1))
             /\ IsDigitPart(Unsigned(SubSeq(s, q + 1, Len(s))))

InfWords == {<<"i", "n", "f">>, <<"i", "n", "f", "i", "n", "i", "t", "y">>}
NanWord == <<"n", "a", "n">>

IsFloatLiteral(s) ==
    LET u == Unsigned(Strip(s))
    IN  Lower(u) \in InfWords \/ Lower(u) = NanWord \/ IsFloatNumber(u)

\* The digits of s (underscores and the point dropped) as a natural number.
RECURSIVE DigitsToNat(_, _)
DigitsToNat(s, acc) ==
    IF s = <<>> THEN acc
    ELSE IF IsDigit(Head(s)) THEN DigitsToNat(Tail(s), 10 * acc + DigitVal(Head(s)))
    ELSE DigitsToNat(Tail(s), acc)

CountDigits(s) == Cardinality({i \in 1..Len(s) : IsDigit(s[i])})

RECURSIVE Normalize(_, _, _)
Normalize(neg, m, e) ==
    IF m = 0 THEN PyFloat("finite", neg, 0, 0)
    ELSE IF m % 10 = 0 THEN Normalize(neg, m \div 10, e + 1)
    ELSE PyFloat("finite", neg, m, e)

\* The value of a string IsFloatLiteral accepts.
FloatValue(s) ==
    LET t == Strip(s)
        neg == t # <<>> /\ Head(t) = "-"
        u == Unsigned(t)
        q == IndexOf(u, {"e", "E"})
        mant == IF q = 0 THEN u ELSE SubSeq(u, 1, q - 1)
        ex == IF q = 0 THEN <<>> ELSE SubSeq(u, q + 1, Len(u))
        p == IndexOf(mant, {"."})
        frac == IF p = 0 THEN <<>> ELSE SubSeq(mant, p + 1, Len(mant))
        exval == (IF ex # <<>> /\ Head(ex) = "-" THEN -1 ELSE 1) * DigitsToNat(ex, 0)
    IN  IF Lower(u) \in InfWords THEN PyFloat("inf", neg, 0, 0)
        ELSE IF Lower(u) = NanWord THEN PyFloat("nan", neg, 0, 0)
        ELSE Normalize(neg, DigitsToNat(mant, 0), exval - CountDigits(frac))

\* float(val) for a str val.
float(val) ==
    IF IsFloatLiteral(val.s) THEN Return(FloatValue(val.s)) ELSE Raise("ValueError")


(***************************************************************************)
(* The state of a PyDroidIPCam object, and what the last call did.         *)
(*   status_data, sensor_data  the two snapshots (self.status_data,        *)
(*                             self.sensor_data)                           *)
(*   call   the last call: its name and arguments                          *)
(*   sent   the paths that call requested, in order                        *)
(*   recv   what the device answered to each of them                       *)
(*   out    how the call ended: Return(value) or Raise(exception)          *)
(***************************************************************************)
VARIABLES call, sent, recv, out, status_data, sensor_data

vars == <<call, sent, recv, out, status_data, sensor_data>>

Call(o, k, v, g) == [op |-> o, key |-> k, val |-> v, tag |-> g]

\* A call ends: the snapshots become st and se.
Finish(c, run, st, se) ==
    /\ call' = c
    /\ sent' = run.sent
    /\ recv' = run.recv
    /\ out' = run.out
    /\ status_data' = st
    /\ sensor_data' = se

\* A call that sends nothing.
Local(o) == [sent |-> <<>>, recv |-> <<>>, out |-> o]

(***************************************************************************)
(* The derived views.                                                      *)
(***************************************************************************)
\* CoerceCurval with the test written  val == "on"  alone: "off" stays a str.
CoerceCurval_on_only(val0) ==
    LET f == float(PyStr(val0))
        val == IF f.kind = "return" THEN f.value ELSE PyStr(val0)
    IN  IF PyIn(val, <<PyStr(on)>>) THEN PyBool(PyEq(val, PyStr(on)))
        ELSE val

\* The body of the loop of current_settings, for one value of curvals.
CoerceCurval(val0) ==
    LET f == float(PyStr(val0))
        val == IF f.kind = "return" THEN f.value ELSE PyStr(val0)
    IN  IF PyIn(val, <<PyStr(on), PyStr(off)>>) THEN PyBool(PyEq(val, PyStr(on)))
        ELSE val

current_settings ==
    {<<p[1], CoerceCurval(p[2])>> : p \in Get(status_data, "curvals", {})}

enabled_sensors == Keys(sensor_data)

enabled_settings == Keys(Get(status_data, "curvals", {}))

\* The body of the inner loop of available_settings: val is the whole list
\* of the key, subval0 one element of it.
CoerceSubval(val, subval0) ==
    LET f == float(PyStr(subval0))
        subval == IF f.kind = "return" THEN f.value ELSE PyStr(subval0)
    IN  IF PyIn(PyList(val), <<PyStr(on), PyStr(off)>>) THEN PyBool(PyEq(subval, PyStr(on)))
        ELSE subval

available_settings ==
    {<<p[1], [i \in 1..Len(p[2]) |-> CoerceSubval(p[2], p[2][i])]>> :
        p \in Get(status_data, "avail", {})}

\* l[i] for a Python list l and an index i that may be negative.
Item(l, i) ==
    LET j == IF i < 0 THEN Len(l) + i + 1 ELSE i + 1
    IN  IF j \in 1..Len(l) THEN Return(l[j]) ELSE Raise("IndexError")

\* get_sensor_value reading the first data point, data[0][-1][0].
get_sensor_value_first_point(sensor) ==
    LET sensor_info == Get(sensor_data, sensor, {})
    IN  IF sensor_info # {} /\ Has(sensor_info, "data")
        THEN LET point == Item(Get(sensor_info, "data", <<>>), 0)
                 values == IF point.kind = "return" THEN Item(point.value, -1) ELSE point
                 value == IF values.kind = "return" THEN Item(values.value, 0) ELSE values
             IN  IF value.kind = "return" THEN Return(PyInt(value.value)) ELSE value
        ELSE Return(None)

get_sensor_value(sensor) ==
    LET sensor_info == Get(sensor_data, sensor, {})
    IN  IF sensor_info # {} /\ Has(sensor_info, "data")
        THEN LET point == Item(Get(sensor_info, "data", <<>>), -1)
                 values == IF point.kind = "return" THEN Item(point.value, -1) ELSE point
                 value == IF values.kind = "return" THEN Item(values.value, 0) ELSE values
             IN  IF value.kind = "return" THEN Return(PyInt(value.value)) ELSE value
        ELSE Return(None)

get_sensor_unit(sensor) ==
    LET sensor_info == Get(sensor_data, sensor, {})
    IN  IF sensor_info # {}
        THEN Return(IF Has(sensor_info, "unit")
                    THEN PyStr(Get(sensor_info, "unit", <<>>)) ELSE None)
        ELSE Return(None)

SensorNames == {"battery", "light"}

GetCurrentSettings ==
    Finish(Call("current_settings", "", None, None),
           Local(Return(PyDict(current_settings))), status_data, sensor_data)

GetAvailableSettings ==
    Finish(Call("available_settings", "", None, None),
           Local(Return(PyDict(available_settings))), status_data, sensor_data)

GetEnabledSensors ==
    Finish(Call("enabled_sensors", "", None, None),
           Local(Return(PyList(enabled_sensors))), status_data, sensor_data)

GetEnabledSettings ==
    Finish(Call("enabled_settings", "", None, None),
           Local(Return(PyList(enabled_settings))), status_data, sensor_data)

GetSensorValue ==
    \E sensor \in SensorNames :
        Finish(Call("get_sensor_value", sensor, None, None),
               Local(get_sensor_value(sensor)), status_data, sensor_data)

GetSensorUnit ==
    \E sensor \in SensorNames :
        Finish(Call("get_sensor_unit", sensor, None, None),
               Local(get_sensor_unit(sensor)), status_data, sensor_data)

Views ==
    \/ GetCurrentSettings
    \/ GetAvailableSettings
    \/ GetEnabledSensors
    \/ GetEnabledSettings
    \/ GetSensorValue
    \/ GetSensorUnit

(***************************************************************************)
(* The snapshots a device can deliver, for the views.                      *)
(***************************************************************************)
Alphabet == {"1", "5", ".", "-", "e", "o", "n", "f", "a"}
Strings(n) == UNION {[1..k -> Alphabet] : k \in 0..n}

auto == <<"a", "u", "t", "o">>
night == <<"n", "i", "g", "h", "t">>
Notable == {<<"1", ".", "5">>, on, off, <<"f", "o", "o">>, auto, night, <<"1">>}

Lists(S, n) == UNION {[1..k -> S] : k \in 0..n}

CurvalsPool ==
    {{}} \cup {{<<k, s>>} : k \in {"ffc", "quality"}, s \in Strings(MaxStrLen)}
         \cup {{<<"ffc", s>>, <<"quality", t>>} : s \in Notable, t \in Notable}

AvailPool ==
    {{}} \cup {{<<k, l>>} : k \in {"ffc", "scenemode"}, l \in Lists(Notable, MaxAvailLen)}
         \cup {{<<"ffc", l>>, <<"scenemode", <<auto, night>>>>} : l \in Lists(Notable, MaxAvailLen)}

Readings == {0, 55}
\* A data point [timestamp, [values...]]; the timestamp is never read.
Points == {<<1, vs>> : vs \in Lists(Readings, MaxVals)}
SensorRecords ==
    {{}} \cup {{<<"unit", <<"%">>>>}}
         \cup {{<<"data", d>>} : d \in Lists(Points, MaxPoints)}
         \cup {{<<"unit", <<"%">>>>, <<"data", d>>} : d \in Lists(Points, MaxPoints)}

ViewStatus ==
    {{}} \cup {{<<"curvals", cv>>} : cv \in CurvalsPool}
         \cup {{<<"avail", av>>} : av \in AvailPool}
         \cup {{<<"curvals", {<<"ffc", s>>}>>, <<"avail", {<<"ffc", <<on, off>>>>}>>} : s \in Notable}

ViewSensors ==
    {{}} \cup {{<<"battery", r>>} : r \in SensorRecords}
         \cup {{<<"battery", r>>, <<"light", {<<"unit", <<"l", "x">>>>, <<"data", <<<<0, <<7>>>>>>>>}>>} :
                  r \in SensorRecords}

NoCall == Call("", "", None, None)
NoOut == [kind |-> "none"]

ViewInit ==
    /\ call = NoCall
    /\ sent = <<>>
    /\ recv = <<>>
    /\ out = NoOut
    /\ \/ status_data \in ViewStatus /\ sensor_data = {}
       \/ status_data = {} /\ sensor_data \in ViewSensors

\* The views applied to every snapshot of the pools.
ViewSpec == ViewInit /\ [][Views]_vars


(***************************************************************************)
(* The device's answer to one GET, and _request.                           *)
(*   net     "ok": an HTTP response arrived; "timeout": the timeout ran    *)
(*           out; "client_error": the transport failed                     *)
(*   status  the HTTP status of the response                               *)
(*   text    the body as response.text() gives it                          *)
(*   json    what response.json() does with the body: Return(the parsed    *)
(*           dict) or Raise                                                *)
(***************************************************************************)
Answer(n, s, b, j) == [net |-> n, status |-> s, text |-> b, json |-> j]

NotJson == Raise("ContentTypeError")

\* B is exc's class or a base class of it (aiohttp's and asyncio's classes).
IsInstance(exc, B) ==
    \/ exc = B
    \/ B = "ClientError" /\ exc \in {"ClientResponseError", "ClientConnectionError"}

\* await self.websession.get(url, ..., raise_for_status=True)
websession_get(answer) ==
    IF answer.net = "timeout" THEN [kind |-> "raise", exc |-> "TimeoutError", status |-> 0]
    ELSE IF answer.net = "client_error"
    THEN [kind |-> "raise", exc |-> "ClientConnectionError", status |-> 0]
    ELSE IF answer.status >= 400
    THEN [kind |-> "raise", exc |-> "ClientResponseError", status |-> answer.status]
    ELSE Return(answer)

\* _request with its two except clauses in the other order: ClientError, a
\* base class of ClientResponseError, is tried first.
_request_swapped(path, answer) ==
    LET got == websession_get(answer)
    IN  IF got.kind = "return" THEN got
        ELSE IF IsInstance(got.exc, "TimeoutError") \/ IsInstance(got.exc, "ClientError")
        THEN Raise("CannotConnect")
        ELSE IF IsInstance(got.exc, "ClientResponseError")
        THEN IF got.status = 401 THEN Raise("Unauthorized")
             ELSE Raise("PyDroidIPCamException")
        ELSE Raise(got.exc)

\* _request(path), the device answering with answer: the try statement with
\* its except clauses in the order of the source.
_request(path, answer) ==
    LET got == websession_get(answer)
    IN  IF got.kind = "return" THEN got
        ELSE IF IsInstance(got.exc, "ClientResponseError")
        THEN IF got.status = 401 THEN Raise("Unauthorized")
             ELSE Raise("PyDroidIPCamException")
        ELSE IF IsInstance(got.exc, "TimeoutError") \/ IsInstance(got.exc, "ClientError")
        THEN Raise("CannotConnect")
        ELSE Raise(got.exc)

Raised(o) == o.kind = "raise"

\* "Ok" in text
Contains(sub, s) ==
    \E i \in 0..(Len(s) - Len(sub)) : SubSeq(s, i + 1, i + Len(sub)) = sub
Ok == <<"O", "k">>

\* One request and the test of its body, the tail of every setter:
\*     response = await self._request(path)
\*     return "Ok" in (await response.text())
RequestOk(path, answer) ==
    LET response == _request(path, answer)
    IN  [sent |-> <<path>>,
         recv |-> <<answer>>,
         out |-> IF Raised(response) THEN response
                 ELSE Return(PyBool(Contains(Ok, response.value.text)))]

\* str(n) for an int n
RECURSIVE NatStr(_)
NatStr(n) == IF n < 10 THEN DigitChars[n + 1] ELSE NatStr(n \div 10) \o DigitChars[(n % 10) + 1]
IntStr(n) == IF n < 0 THEN "-" \o NatStr(-n) ELSE NatStr(n)

\* The text an f-string puts in for {v}.
Format(v) ==
    CASE v.t = "str" -> Str(v.s)
      [] v.t = "int" -> IntStr(v.n)
      [] v.t = "bool" -> IF v.b THEN "True" ELSE "False"
      [] OTHER -> "None"

(***************************************************************************)
(* update                                                                  *)
(***************************************************************************)
StatusPath == "/status.json?show_avail=1"
SensorsPath == "/sensors.json"

\* update assigning both snapshots only after both requests succeeded.
update_atomic(a1, a2) ==
    LET r1 == _request(StatusPath, a1)
        j1 == a1.json
        r2 == _request(SensorsPath, a2)
        j2 == a2.json
        Leave(s, r, o, st, se) ==
            [sent |-> s, recv |-> r, out |-> o, status_data |-> st, sensor_data |-> se]
    IN  IF Raised(r1) THEN Leave(<<StatusPath>>, <<a1>>, r1, status_data, sensor_data)
        ELSE IF Raised(j1) THEN Leave(<<StatusPath>>, <<a1>>, j1, status_data, sensor_data)
        ELSE IF Raised(r2)
        THEN Leave(<<StatusPath, SensorsPath>>, <<a1, a2>>, r2, status_data, sensor_data)
        ELSE IF Raised(j2)
        THEN Leave(<<StatusPath, SensorsPath>>, <<a1, a2>>, j2, status_data, sensor_data)
        ELSE Leave(<<StatusPath, SensorsPath>>, <<a1, a2>>, Return(None), j1.value, j2.value)

\* update(), the device answering a1 to the first request and a2 to the
\* second: the run, and the snapshots it leaves.
update(a1, a2) ==
    LET r1 == _request(StatusPath, a1)
        j1 == a1.json
        r2 == _request(SensorsPath, a2)
        j2 == a2.json
        Leave(s, r, o, st, se) ==
            [sent |-> s, recv |-> r, out |-> o, status_data |-> st, sensor_data |-> se]
    IN  IF Raised(r1) THEN Leave(<<StatusPath>>, <<a1>>, r1, status_data, sensor_data)
        ELSE IF Raised(j1) THEN Leave(<<StatusPath>>, <<a1>>, j1, status_data, sensor_data)
        ELSE IF Raised(r2)
        THEN Leave(<<StatusPath, SensorsPath>>, <<a1, a2>>, r2, j1.value, sensor_data)
        ELSE IF Raised(j2)
        THEN Leave(<<StatusPath, SensorsPath>>, <<a1, a2>>, j2, j1.value, sensor_data)
        ELSE Leave(<<StatusPath, SensorsPath>>, <<a1, a2>>, Return(None), j1.value, j2.value)

(***************************************************************************)
(* The setters.                                                            *)
(***************************************************************************)
ALLOWED_ORIENTATIONS ==
    << <<"l", "a", "n", "d", "s", "c", "a", "p", "e">>,
       <<"u", "p", "s", "i", "d", "e", "d", "o", "w", "n">>,
       <<"p", "o", "r", "t", "r", "a", "i", "t">>,
       <<"u", "p", "s", "i", "d", "e", "d", "o", "w", "n", "_", "p", "o", "r", "t", "r", "a", "i", "t">> >>

\* change_setting without the isinstance(val, bool) branch.
change_setting_raw(key, val, answer) ==
    RequestOk("/settings/" \o key \o "?set=" \o Format(val), answer)

change_setting(key, val, answer) ==
    LET payload == IF val.t = "bool" THEN PyStr(IF val.b THEN on ELSE off) ELSE val
    IN  RequestOk("/settings/" \o key \o "?set=" \o Format(payload), answer)

torch(activate, answer) ==
    RequestOk(IF activate THEN "/enabletorch" ELSE "/disabletorch", answer)

focus(activate, answer) ==
    RequestOk(IF activate THEN "/focus" ELSE "/nofocus", answer)

\* URL(tag).raw_path for a tag of letters, spaces, "?" and "#": the part before
\* the query or the fragment, a space percent-escaped.
RECURSIVE Quote(_)
Quote(s) ==
    IF s = <<>> THEN ""
    ELSE (IF Head(s) = " " THEN "%20" ELSE Head(s)) \o Quote(Tail(s))
raw_path(tag) ==
    LET cut == IndexOf(tag, {"?", "#"})
    IN  Quote(IF cut = 0 THEN tag ELSE SubSeq(tag, 1, cut - 1))

record(rec, tag, answer) ==
    LET path0 == IF rec THEN "/startvideo?force=1" ELSE "/stopvideo?force=1"
        path == IF rec /\ tag # None
                THEN "/startvideo?force=1&tag=" \o raw_path(tag.s) ELSE path0
    IN  RequestOk(path, answer)

set_front_facing_camera(activate, answer) == change_setting("ffc", PyBool(activate), answer)
set_night_vision(activate, answer) == change_setting("night_vision", PyBool(activate), answer)
set_overlay(activate, answer) == change_setting("overlay", PyBool(activate), answer)
set_gps_active(activate, answer) == change_setting("gps_active", PyBool(activate), answer)
set_quality(quality, answer) == change_setting("quality", PyInt(quality), answer)
set_motion_detect(activate, answer) == change_setting("motion_detect", PyBool(activate), answer)

\* set_orientation without the test against ALLOWED_ORIENTATIONS.
set_orientation_unchecked(orientation, answer) ==
    change_setting("orientation", PyStr(orientation), answer)

set_orientation(orientation, answer) ==
    IF ~PyIn(PyStr(orientation), [i \in 1..Len(ALLOWED_ORIENTATIONS) |-> PyStr(ALLOWED_ORIENTATIONS[i])])
    THEN Local(Raise("RuntimeError"))
    ELSE change_setting("orientation", PyStr(orientation), answer)

set_zoom(zoom, answer) == RequestOk("/settings/ptz?zoom=" \o IntStr(zoom), answer)

set_scenemode(scenemode, answer) ==
    IF ~Has(available_settings, "scenemode") THEN Local(Raise("KeyError"))
    ELSE IF ~PyIn(PyStr(scenemode), Get(available_settings, "scenemode", <<>>))
    THEN Local(Raise("RuntimeError"))
    ELSE change_setting("scenemode", PyStr(scenemode), answer)


(***************************************************************************)
(* What the device may answer.                                             *)
(***************************************************************************)
ErrorStatuses == {401, 404}

Failures ==
    {Answer(s[1], s[2], <<>>, NotJson) :
        s \in {<<"timeout", 0>>, <<"client_error", 0>>} \cup {<<"ok", e>> : e \in ErrorStatuses}}

\* Plain-text bodies: "", "Ok", "ok", "kO", "O", "xOk", "Okay", "O k".
TextBodies ==
    {<<>>, Ok, <<"o", "k">>, <<"k", "O">>, <<"O">>, <<"x", "O", "k">>,
     <<"O", "k", "a", "y">>, <<"O", " ", "k">>}

TextAnswers == {Answer("ok", 200, b, NotJson) : b \in TextBodies} \cup Failures

DeviceStatus ==
    { {},
      {<<"curvals", {<<"ffc", on>>, <<"scenemode", auto>>}>>,
       <<"avail", {<<"ffc", <<on, off>>>>, <<"scenemode", <<auto, night>>>>}>>},
      {<<"curvals", {<<"ffc", off>>}>>, <<"avail", {<<"ffc", <<on, off>>>>}>>} }

DeviceSensors ==
    { {},
      {<<"battery", {<<"unit", <<"%">>>>, <<"data", << <<0, <<0>>>>, <<1, <<55>>>> >> >>}>>},
      {<<"battery", {<<"unit", <<"%">>>>, <<"data", <<>>>>}>>,
       <<"light", {<<"data", << <<1, <<55, 0>>>> >> >>}>>} }

JsonAnswers(bodies) ==
    {Answer("ok", 200, <<>>, Return(d)) : d \in bodies}
        \cup {Answer("ok", 200, <<>>, NotJson)} \cup Failures

(***************************************************************************)
(* The calls.                                                              *)
(***************************************************************************)
Update ==
    \E a1 \in JsonAnswers(DeviceStatus), a2 \in JsonAnswers(DeviceSensors) :
        LET u == update(a1, a2)
        IN  Finish(Call("update", "", None, None), u, u.status_data, u.sensor_data)

SettingKeys == {"ffc", "quality"}
SettingValues == {PyBool(TRUE), PyBool(FALSE), PyInt(-50), PyStr(night)}

ChangeSetting ==
    \E key \in SettingKeys, val \in SettingValues, answer \in TextAnswers :
        Finish(Call("change_setting", key, val, None), change_setting(key, val, answer),
               status_data, sensor_data)

Torch ==
    \E activate \in BOOLEAN, answer \in TextAnswers :
        Finish(Call("torch", "", PyBool(activate), None), torch(activate, answer),
               status_data, sensor_data)

Focus ==
    \E activate \in BOOLEAN, answer \in TextAnswers :
        Finish(Call("focus", "", PyBool(activate), None), focus(activate, answer),
               status_data, sensor_data)

Tags == {None, PyStr(<<"a", " ", "b">>), PyStr(<<"a", "?", "b">>)}

Record ==
    \E rec \in BOOLEAN, tag \in Tags, answer \in TextAnswers :
        Finish(Call("record", "", PyBool(rec), tag), record(rec, tag, answer),
               status_data, sensor_data)

\* set_front_facing_camera also writing the new value into curvals when the
\* device accepted it.
SetFrontFacingCameraCached ==
    \E activate \in BOOLEAN, answer \in TextAnswers :
        LET run == set_front_facing_camera(activate, answer)
            cv == {p \in Get(status_data, "curvals", {}) : p[1] # "ffc"}
                     \cup {<<"ffc", IF activate THEN on ELSE off>>}
            st == {p \in status_data : p[1] # "curvals"} \cup {<<"curvals", cv>>}
        IN  Finish(Call("set_front_facing_camera", "", PyBool(activate), None), run,
                   IF ~Raised(run.out) /\ run.out.value.b THEN st ELSE status_data,
                   sensor_data)

SetFrontFacingCamera ==
    \E activate \in BOOLEAN, answer \in TextAnswers :
        Finish(Call("set_front_facing_camera", "", PyBool(activate), None),
            set_front_facing_camera(activate, answer),
               status_data, sensor_data)

SetNightVision ==
    \E activate \in BOOLEAN, answer \in TextAnswers :
        Finish(Call("set_night_vision", "", PyBool(activate), None),
            set_night_vision(activate, answer),
               status_data, sensor_data)

SetOverlay ==
    \E activate \in BOOLEAN, answer \in TextAnswers :
        Finish(Call("set_overlay", "", PyBool(activate), None), set_overlay(activate, answer),
               status_data, sensor_data)

SetGpsActive ==
    \E activate \in BOOLEAN, answer \in TextAnswers :
        Finish(Call("set_gps_active", "", PyBool(activate), None),
            set_gps_active(activate, answer),
               status_data, sensor_data)

SetQuality ==
    \E quality \in {100, 5}, answer \in TextAnswers :
        Finish(Call("set_quality", "", PyInt(quality), None), set_quality(quality, answer),
               status_data, sensor_data)

SetMotionDetect ==
    \E activate \in BOOLEAN, answer \in TextAnswers :
        Finish(Call("set_motion_detect", "", PyBool(activate), None),
            set_motion_detect(activate, answer),
               status_data, sensor_data)

Orientations ==
    {ALLOWED_ORIENTATIONS[i] : i \in 1..Len(ALLOWED_ORIENTATIONS)}
        \cup {<<"d", "i", "a", "g", "o", "n", "a", "l">>, <<>>,
              <<"L", "a", "n", "d", "s", "c", "a", "p", "e">>}

SetOrientation ==
    \E orientation \in Orientations, answer \in TextAnswers :
        Finish(Call("set_orientation", "", PyStr(orientation), None),
            set_orientation(orientation, answer),
               status_data, sensor_data)

SetZoom ==
    \E zoom \in {0, 12}, answer \in TextAnswers :
        Finish(Call("set_zoom", "", PyInt(zoom), None), set_zoom(zoom, answer),
               status_data, sensor_data)

SceneModes == {auto, night, <<"f", "o", "o">>}

SetScenemode ==
    \E scenemode \in SceneModes, answer \in TextAnswers :
        Finish(Call("set_scenemode", "", PyStr(scenemode), None),
            set_scenemode(scenemode, answer),
               status_data, sensor_data)

\* __init__: both snapshots are empty dicts.
Init ==
    /\ call = NoCall
    /\ sent = <<>>
    /\ recv = <<>>
    /\ out = NoOut
    /\ status_data = {}
    /\ sensor_data = {}

Next ==
    \/ Update
    \/ Views
    \/ ChangeSetting
    \/ Torch
    \/ Focus
    \/ Record
    \/ SetFrontFacingCamera
    \/ SetNightVision
    \/ SetOverlay
    \/ SetGpsActive
    \/ SetQuality
    \/ SetMotionDetect
    \/ SetOrientation
    \/ SetZoom
    \/ SetScenemode

Spec == Init /\ [][Next]_vars


(***************************************************************************)
(* Properties.                                                             *)
(***************************************************************************)
Answered401 == \E i \in 1..Len(recv) : recv[i].net = "ok" /\ recv[i].status = 401

\* C1: whenever the device answered a request of the last call with HTTP
\* status 401, the call ended by raising Unauthorized: it neither raised
\* CannotConnect (or anything else) nor returned a result.
C1_UnauthorizedOn401 ==
    Answered401 => Raised(out) /\ out.exc = "Unauthorized"

\* C1 witness: an update whose first request succeeded and whose second
\* request was answered 401.
C1_Witness ==
    /\ call.op = "update"
    /\ Len(recv) = 2
    /\ recv[2].net = "ok" /\ recv[2].status = 401
    /\ Raised(out)

AllowedOrientationTexts == {"landscape", "upsidedown", "portrait", "upsidedown_portrait"}

\* C2: set_orientation(v) with v outside the allow-list fails (RuntimeError)
\* having sent no request; with v in the allow-list it sent exactly the one
\* request GET /settings/orientation?set=v.
C2_OrientationValidated ==
    call.op = "set_orientation" =>
        LET v == Str(call.val.s)
        IN  IF v \in AllowedOrientationTexts
            THEN sent = <<"/settings/orientation?set=" \o v>>
            ELSE sent = <<>> /\ Raised(out) /\ out.exc = "RuntimeError"

\* C2 witness: set_orientation("diagonal") was called and nothing was sent.
C2_Witness ==
    /\ call.op = "set_orientation"
    /\ Str(call.val.s) = "diagonal"
    /\ sent = <<>>
    /\ Raised(out)

\* C3, as claimed: while the status snapshot is in its initial state,
\* set_scenemode(v) ends for every v with the validation error (the
\* RuntimeError of an unrecognized scene mode) and sends no request.
C3_ScenemodeBeforeUpdate ==
    call.op = "set_scenemode" /\ status_data = {} =>
        sent = <<>> /\ Raised(out) /\ out.exc = "RuntimeError"

\* The coercion as the claims word it: "on" is true, "off" is false, a numeric
\* string is its number, any other string is itself.
Coerced(e) ==
    IF e = on THEN PyBool(TRUE)
    ELSE IF e = off THEN PyBool(FALSE)
    ELSE IF IsFloatLiteral(e) THEN FloatValue(e)
    ELSE PyStr(e)

\* C4, as claimed: available_settings returns, for every key of avail, the
\* list of the coerced elements of the key's list, in the same order and of
\* the same length, with the coercion of current_settings.
C4_AvailableCoerced ==
    call.op = "available_settings" =>
        /\ ~Raised(out)
        /\ out.value.d =
              {<<p[1], [i \in 1..Len(p[2]) |-> Coerced(p[2][i])]>> :
                  p \in Get(status_data, "avail", {})}

\* C5: current_settings returns a mapping with exactly the keys of curvals,
\* each value coerced on its own: "on" to true and "off" to false, tested
\* on the original string; a string that parses as a number to that number;
\* every other string unchanged.
C5_CurrentCoerced ==
    call.op = "current_settings" =>
        /\ ~Raised(out)
        /\ Keys(out.value.d) = Keys(Get(status_data, "curvals", {}))
        /\ out.value.d = {<<p[1], Coerced(p[2])>> : p \in Get(status_data, "curvals", {})}

\* C5 witness: current_settings returned a mapping of two keys, one value
\* coerced to true and the other to a number.
C5_Witness ==
    /\ call.op = "current_settings"
    /\ Cardinality(out.value.d) = 2
    /\ \E p \in out.value.d : p[2].t = "bool" /\ p[2].b
    /\ \E p \in out.value.d : p[2].t = "float" /\ p[2].cls = "finite"

\* The last call asked for a sensor whose record holds a non-empty series.
SensorHasData ==
    /\ Has(sensor_data, call.key)
    /\ Has(Get(sensor_data, call.key, {}), "data")
    /\ Get(Get(sensor_data, call.key, {}), "data", <<>>) # <<>>

\* The values of the most recent (last) data point of that sensor.
LastValues ==
    LET data == Get(Get(sensor_data, call.key, {}), "data", <<>>)
    IN  data[Len(data)][2]

\* C6, as claimed: for a sensor with a non-empty series, get_sensor_value
\* returns the last value of the last data point; for a name that is not in
\* the snapshot it returns None.
C6_LastValueOfLastPoint ==
    call.op = "get_sensor_value" =>
        /\ SensorHasData /\ LastValues # <<>> =>
              out = Return(PyInt(LastValues[Len(LastValues)]))
        /\ ~Has(sensor_data, call.key) => out = Return(None)

\* C6, amended: for a sensor with a non-empty series, get_sensor_value
\* returns the first value of the last data point (and raises IndexError when
\* that point holds no value); for a name that is not in the snapshot it
\* returns None.
C6_FirstValueOfLastPoint ==
    call.op = "get_sensor_value" =>
        /\ SensorHasData =>
              IF LastValues # <<>> THEN out = Return(PyInt(LastValues[1]))
              ELSE Raised(out) /\ out.exc = "IndexError"
        /\ ~Has(sensor_data, call.key) => out = Return(None)

\* C6 witness: get_sensor_value was called for a sensor with two data points,
\* the last of them holding two different values, and returned the first.
C6_Witness ==
    /\ call.op = "get_sensor_value"
    /\ SensorHasData
    /\ Len(Get(Get(sensor_data, call.key, {}), "data", <<>>)) = 2
    /\ Len(LastValues) = 2
    /\ LastValues[1] # LastValues[2]
    /\ out = Return(PyInt(LastValues[1]))

\* C7, as claimed: get_sensor_value and get_sensor_unit never raise, whatever
\* the sensors snapshot holds.
C7_SensorViewsNeverRaise ==
    call.op \in {"get_sensor_value", "get_sensor_unit"} => ~Raised(out)

\* The setting each boolean wrapper changes.
WrapperKey ==
    [o \in {"set_front_facing_camera", "set_night_vision", "set_overlay",
            "set_gps_active", "set_motion_detect"} |->
        CASE o = "set_front_facing_camera" -> "ffc"
          [] o = "set_night_vision" -> "night_vision"
          [] o = "set_overlay" -> "overlay"
          [] o = "set_gps_active" -> "gps_active"
          [] o = "set_motion_detect" -> "motion_detect"]

\* The last call changed a setting to a boolean value.
BooleanChange ==
    \/ call.op = "change_setting" /\ call.val.t = "bool"
    \/ call.op \in DOMAIN WrapperKey

\* C8: change_setting(key, b) with a boolean b, called directly or through a
\* boolean wrapper, sends exactly one request, /settings/{key}?set=on when b
\* is true and /settings/{key}?set=off when b is false, and when the device
\* answers with a body it returns true exactly if the body contains "Ok".
C8_BooleanPayload ==
    BooleanChange =>
        LET key == IF call.op = "change_setting" THEN call.key ELSE WrapperKey[call.op]
        IN  /\ sent = <<"/settings/" \o key \o "?set=" \o (IF call.val.b THEN "on" ELSE "off")>>
            /\ Len(recv) = 1
            /\ ~Raised(out) <=> recv[1].net = "ok" /\ recv[1].status < 400
            /\ ~Raised(out) =>
                  out.value.t = "bool"
                  /\ (out.value.b <=>
                        \E i \in 1..(Len(recv[1].text) - 1) :
                            recv[1].text[i] = "O" /\ recv[1].text[i + 1] = "k")

\* C8 witness: set_night_vision(False) sent /settings/night_vision?set=off and
\* returned true on a body that holds "Ok" after another character.
C8_Witness ==
    /\ call.op = "set_night_vision"
    /\ ~call.val.b
    /\ sent = <<"/settings/night_vision?set=off">>
    /\ Len(recv) = 1 /\ recv[1].text = <<"x", "O", "k">>
    /\ ~Raised(out) /\ out.value.b

\* C9: a step of any call but update leaves the status snapshot and the
\* sensors snapshot unchanged, whether the call succeeds or fails.
C9_OnlyUpdateWrites ==
    [][call'.op # "update" => UNCHANGED <<status_data, sensor_data>>]_vars

\* C9 witness: set_front_facing_camera(False) returned true while
\* current_settings still gives ffc as true.
C9_Witness ==
    /\ call.op = "set_front_facing_camera"
    /\ ~call.val.b
    /\ ~Raised(out) /\ out.value.b
    /\ <<"ffc", PyBool(TRUE)>> \in current_settings

\* C10, as claimed: whenever update ends with an error, both snapshots are
\* what they were before the call.
C10_FailedUpdateKeepsBoth ==
    [][call'.op = "update" /\ Raised(out') => UNCHANGED <<status_data, sensor_data>>]_vars

\* C10, amended: update requests the status first and the sensors second.
\* When it ends with an error of the status request (or of parsing its body)
\* both snapshots are what they were; when it ends with an error of the
\* sensors request (or of parsing its body) the sensors snapshot is what it
\* was and the status snapshot is already the newly parsed status; when it
\* returns, both snapshots are the newly parsed bodies.
C10_UpdateStepwise ==
    [][call'.op = "update" =>
          /\ sent' \in {<<StatusPath>>, <<StatusPath, SensorsPath>>}
          /\ Len(recv') = Len(sent')
          /\ Len(sent') = 1 => Raised(out') /\ UNCHANGED <<status_data, sensor_data>>
          /\ Len(sent') = 2 /\ Raised(out') =>
                status_data' = recv'[1].json.value /\ sensor_data' = sensor_data
          /\ ~Raised(out') =>
                /\ Len(sent') = 2
                /\ status_data' = recv'[1].json.value
                /\ sensor_data' = recv'[2].json.value]_vars

\* C10 witness: an update ended with an error of its second request, and the
\* status snapshot is the new one while the sensors snapshot is still the
\* initial one.
C10_Witness ==
    /\ call.op = "update"
    /\ Len(sent) = 2
    /\ Raised(out)
    /\ status_data = recv[1].json.value
    /\ status_data # {}
    /\ sensor_data = {}

=============================================================================
